---- MODULE Spec2Model ----
(***************************************************************************)
(* A model of the Notepad++ theme generator (src/main.py): the Style rule, *)
(* the color updater, the config loader/writer, the style auditor, the     *)
(* template builder and the command dispatcher.                            *)
(*                                                                         *)
(* Data encoding.  A Python str is a sequence of one-character strings.    *)
(* An optional value (str | None, or the result of dict.get/Element.get)   *)
(* is None == <<>> or Some(v) == <<v>>.  A Python list is a sequence, a    *)
(* Python set is a set.  A raised exception is a record with exc # NoExc.  *)
(***************************************************************************)
EXTENDS Integers, Sequences, FiniteSets, TLC

VARIABLES
    cmd,         \* args.command of this run
    pc,          \* position of the run in main
    err,         \* the uncaught exception that ended the run, or NoExc
    configFile,  \* content of the file at args.config (a YAML document)
    sourceFile,  \* content of the file at args.source (an XML document)
    targetFile,  \* content of the file at args.target (an XML document or NoFile)
    styles,      \* the list of Style objects loaded from the config
    root,        \* the parsed XML tree held in memory
    warnings,    \* number of logger.warning calls made so far
    io,          \* the blocking file/process operations performed so far, in order
    stdout,      \* the lines printed so far
    arg,         \* the argument of a function applied on its own
    ret          \* its result

vars == <<cmd, pc, err, configFile, sourceFile, targetFile, styles, root,
          warnings, io, stdout, arg, ret>>

(***************************************************************************)
(* Bounds of the model.                                                    *)
(***************************************************************************)
MaxNameLen == 1      \* characters in a style name
MaxColorLen == 2     \* characters in a color string
MaxNames == 3        \* names given to one Style constructor call
MaxRules == 2        \* rules in a list of styles

(***************************************************************************)
(* Python values.                                                          *)
(***************************************************************************)
None == <<>>
Some(v) == <<v>>
Val(o) == o[1]

NoExc == "none"

\* Characters that occur in the modelled strings.
NameChars == {"a", "~"}
ColorChars == {"$", "a"}

\* ord(c): the code point of a character.
Ord(c) == CASE c = "$" -> 36
            [] c = "a" -> 97
            [] c = "~" -> 126

\* All strings over chars of at most n characters.
Strings(chars, n) == UNION {[1..k -> chars] : k \in 0..n}

\* s < t for str: lexicographic by code point.
RECURSIVE StrLess(_, _)
StrLess(s, t) ==
    IF s = <<>> THEN t # <<>>
    ELSE IF t = <<>> THEN FALSE
    ELSE IF s[1] = t[1] THEN StrLess(Tail(s), Tail(t))
    ELSE Ord(s[1]) < Ord(t[1])

\* s.startswith(c)
StartsWith(s, c) == Len(s) > 0 /\ s[1] = c

\* bool(o) of an optional str: None and "" are falsy.
Truthy(o) == o # None /\ Val(o) # <<>>

\* set(seq)
ToSet(seq) == {seq[i] : i \in 1..Len(seq)}

Raise(e) == [exc |-> e, val |-> <<>>]
Return(v) == [exc |-> NoExc, val |-> v]

\* sorted(S) for a set of str values, each Some(s): ascending by StrLess.
RECURSIVE SortedStr(_)
SortedStr(S) ==
    IF S = {} THEN <<>>
    ELSE LET m == CHOOSE x \in S : \A y \in S \ {x} : StrLess(Val(x), Val(y))
         IN  <<m>> \o SortedStr(S \ {m})

\* sorted(S) for a set of optional str values: comparing None with a str
\* raises TypeError; a set of one element is never compared.
Sorted(S) ==
    IF None \in S /\ Cardinality(S) > 1 THEN Raise("TypeError")
    ELSE IF S = {None} THEN Return(<<None>>)
    ELSE Return(SortedStr(S))

(***************************************************************************)
(* Style (dataclass) and its __post_init__.                                *)
(*                                                                         *)
(* A name is an optional str: Some(s) for a str, None for the None that a  *)
(* YAML null or a missing XML attribute yields.                            *)
(***************************************************************************)
\* Style names: the non-empty strings over NameChars.
Names == Strings(NameChars, MaxNameLen) \ {<<>>}
StrNames == {Some(n) : n \in Names}
OptNames == {None} \cup StrNames
Colors == Strings(ColorChars, MaxColorLen)
OptColors == {None} \cup {Some(c) : c \in Colors}
NameLists == UNION {[1..k -> StrNames] : k \in 0..MaxNames}

\* The ValueErrors of __post_init__.
EmptyNamesError == "ValueError: names list cannot be empty"
NoColorError == "ValueError: At least one of fgColor or bgColor must be provided"
FgPrefixError == "ValueError: fgColor must start with '$' if provided"
BgPrefixError == "ValueError: bgColor must start with '$' if provided"

\* Mutant: the names are stored as given.
NormalizeNamesKeepsInput(names) == Return(names)

\* self.names = sorted(set(self.names))
NormalizeNames(names) == Sorted(ToSet(names))

\* The color check of __post_init__ for one color: the condition under which
\* it raises.
ColorRejected(color) == Truthy(color) /\ ~StartsWith(Val(color), "$")

\* Style(names=..., fgColor=..., bgColor=...)
Style(names, fgColor, bgColor) ==
    IF names = <<>> THEN Raise(EmptyNamesError)
    ELSE IF fgColor = None /\ bgColor = None THEN Raise(NoColorError)
    ELSE IF ColorRejected(fgColor) THEN Raise(FgPrefixError)
    ELSE IF ColorRejected(bgColor) THEN Raise(BgPrefixError)
    ELSE LET sorted == NormalizeNames(names)
         IN  IF sorted.exc # NoExc THEN sorted
             ELSE Return([names |-> sorted.val,
                          fgColor |-> fgColor, bgColor |-> bgColor])

(***************************************************************************)
(* XML elements and update_fg_bg_color.                                    *)
(*                                                                         *)
(* A style element (WordsStyle or WidgetStyle) is its attribute map: a     *)
(* function from AttrKeys to an optional str, None for a missing           *)
(* attribute (what Element.get returns for it).                            *)
(***************************************************************************)
AttrKeys == {"name", "fgColor", "bgColor", "styleID"}

\* Characters of the literal colors a source document carries.
HexChars == {"a"}
SourceColors == Strings(HexChars, MaxColorLen)
OptSourceColors == {None} \cup {Some(c) : c \in SourceColors}
OptStyleIDs == {None, Some(<<"a">>)}

Elements ==
    {e \in [AttrKeys -> OptNames \cup OptSourceColors \cup OptStyleIDs] :
        /\ e["name"] \in OptNames
        /\ e["fgColor"] \in OptSourceColors
        /\ e["bgColor"] \in OptSourceColors
        /\ e["styleID"] \in OptStyleIDs}

\* element.get(key)
Get(element, key) == element[key]

\* element.set(key, value)
Set(element, key, value) == [element EXCEPT ![key] = Some(value)]

\* Mutant: the two colors are set on each other's attribute.
SetColorsSwapped(element, new_fg_color, new_bg_color) ==
    LET e1 == IF new_fg_color # None
              THEN Set(element, "bgColor", Val(new_fg_color))
              ELSE element
    IN  IF new_bg_color # None
        THEN Set(e1, "fgColor", Val(new_bg_color))
        ELSE e1

\* The matching branch of update_fg_bg_color: the two conditional sets.
SetColors(element, new_fg_color, new_bg_color) ==
    LET e1 == IF new_fg_color # None
              THEN Set(element, "fgColor", Val(new_fg_color))
              ELSE element
    IN  IF new_bg_color # None
        THEN Set(e1, "bgColor", Val(new_bg_color))
        ELSE e1

\* Mutant: the colors are set without comparing the name.
UpdateFgBgColorAnyName(element, style_name, new_fg_color, new_bg_color) ==
    [element |-> SetColors(element, new_fg_color, new_bg_color),
     warned |-> 1, exc |-> NoExc]

\* update_fg_bg_color(element, style_name, new_fg_color, new_bg_color): the
\* returned (same) element, the number of logger.warning calls and the
\* exception raised.
UpdateFgBgColor(element, style_name, new_fg_color, new_bg_color) ==
    IF Get(element, "name") = style_name
    THEN [element |-> SetColors(element, new_fg_color, new_bg_color),
          warned |-> 0, exc |-> NoExc]
    ELSE [element |-> element, warned |-> 1, exc |-> NoExc]

(***************************************************************************)
(* The config file: yaml.safe_load and yaml.dump.                          *)
(*                                                                         *)
(* The file holds the top-level mapping {styles: [...]}; its content is    *)
(* the sequence under "styles".  Each item is a mapping, written as the    *)
(* sequence of its entries in file order.  An entry is a key with a        *)
(* scalar (seq = FALSE, one item) or a block sequence of scalars (seq =    *)
(* TRUE).  A scalar is its text and whether it is written plain or quoted. *)
(***************************************************************************)
Plain(text) == [style |-> "plain", text |-> text]
Quoted(text) == [style |-> "quoted", text |-> text]

NullWord == <<"n", "u", "l", "l">>

\* The plain scalars the YAML 1.1 resolver reads as null.
NullTexts == {<<>>, <<"~">>, NullWord, <<"N", "u", "l", "l">>,
              <<"N", "U", "L", "L">>}

\* safe_load of one scalar: a plain scalar the resolver reads as null is
\* None, every other scalar over the modelled characters is a str.
LoadScalar(sc) ==
    IF sc.style = "plain" /\ sc.text \in NullTexts THEN None
    ELSE Some(sc.text)

\* Mutant: every str is written plain.
DumpScalarPlain(v) ==
    IF v = None THEN Plain(NullWord) ELSE Plain(Val(v))

\* yaml.dump of one value: None is the plain scalar null; a str is written
\* plain unless the plain form would be read back as something else.
DumpScalar(v) ==
    IF v = None THEN Plain(NullWord)
    ELSE IF Val(v) \in NullTexts THEN Quoted(Val(v))
    ELSE Plain(Val(v))

ScalarEntry(key, v) == [key |-> key, seq |-> FALSE, items |-> <<DumpScalar(v)>>]
SeqEntry(key, vs) ==
    [key |-> key, seq |-> TRUE,
     items |-> [i \in 1..Len(vs) |-> DumpScalar(vs[i])]]

\* yaml.dump(asdict(style), sort_keys=True): the three fields, keys sorted.
DumpStyle(style) ==
    <<ScalarEntry("bgColor", style.bgColor),
      ScalarEntry("fgColor", style.fgColor),
      SeqEntry("names", style.names)>>

\* format_config_file's yaml.dump of {"styles": [asdict(style) ...]}.
DumpStyles(styleList) == [i \in 1..Len(styleList) |-> DumpStyle(styleList[i])]

\* Whether a loaded mapping has the key.
HasKey(mapping, key) == \E i \in 1..Len(mapping) : mapping[i].key = key
Entry(mapping, key) ==
    mapping[CHOOSE i \in 1..Len(mapping) : mapping[i].key = key]

\* data.get("names", []): the loaded list, the empty list without the key.
GetNames(mapping) ==
    IF HasKey(mapping, "names")
    THEN LET items == Entry(mapping, "names").items
         IN  [i \in 1..Len(items) |-> LoadScalar(items[i])]
    ELSE <<>>

\* data.get("fgColor") / data.get("bgColor"): None without the key.
GetColor(mapping, key) ==
    IF HasKey(mapping, key) THEN LoadScalar(Entry(mapping, key).items[1])
    ELSE None

\* The Style built from one item of config_data["styles"].
LoadStyle(mapping) ==
    Style(GetNames(mapping), GetColor(mapping, "fgColor"),
          GetColor(mapping, "bgColor"))

\* load_styles_from_config: the styles appended in file order; the first
\* failing Style construction propagates.
RECURSIVE LoadFrom(_, _)
LoadFrom(file, acc) ==
    IF file = <<>> THEN Return(acc)
    ELSE LET st == LoadStyle(Head(file))
         IN  IF st.exc # NoExc THEN Raise(st.exc)
             ELSE LoadFrom(Tail(file), Append(acc, st.val))

LoadStylesFromConfig(file) == LoadFrom(file, <<>>)

(***************************************************************************)
(* The XML document and its accessors.                                     *)
(*                                                                         *)
(* A document (file content or parsed tree) is the record of its two       *)
(* sections as root.find returns them: None for a missing section, else    *)
(* Some(children).  The children of LexerStyles are its LexerType          *)
(* elements, each the sequence of its WordsStyle elements; the children of *)
(* GlobalStyles are its WidgetStyle elements.                              *)
(***************************************************************************)
NoLexerStylesError == "ValueError: LexerStyles element not found"
NoGlobalStylesError == "ValueError: GlobalStyles element not found"

\* get_lexer_styles(root)
GetLexerStyles(tree) ==
    IF tree.LexerStyles # None THEN Return(Val(tree.LexerStyles))
    ELSE Raise(NoLexerStylesError)

\* get_global_styles(root)
GetGlobalStyles(tree) ==
    IF tree.GlobalStyles # None THEN Return(Val(tree.GlobalStyles))
    ELSE Raise(NoGlobalStylesError)

\* The WordsStyle elements of all LexerType children, in document order.
RECURSIVE WordsStylesOf(_)
WordsStylesOf(lexer_types) ==
    IF lexer_types = <<>> THEN <<>>
    ELSE Head(lexer_types) \o WordsStylesOf(Tail(lexer_types))

(***************************************************************************)
(* The style auditor.                                                      *)
(***************************************************************************)
\* get_distinct_style_names(lexer_styles)
GetDistinctStyleNames(lexer_styles) ==
    LET leaves == WordsStylesOf(lexer_styles)
        distinct_style_names ==
            {Get(leaves[i], "name") : i \in 1..Len(leaves)}
    IN  Sorted(distinct_style_names)

\* The set of names of all configured styles.
ConfigStyleNames(styleList) ==
    UNION {ToSet(styleList[i].names) : i \in 1..Len(styleList)}

\* get_distinct_missing_style_names(lexer_styles, styles)
GetDistinctMissingStyleNames(lexer_styles, styleList) ==
    LET distinct == GetDistinctStyleNames(lexer_styles)
    IN  IF distinct.exc # NoExc THEN distinct
        ELSE LET existing_style_names == ToSet(distinct.val)
                 missing_names ==
                     existing_style_names \ ConfigStyleNames(styleList)
             IN  Sorted(missing_names)

(***************************************************************************)
(* The template builder's loops.                                           *)
(***************************************************************************)
\* Mutant: only the first name of a style is tried.
ApplyNamesFirstOnly(upd, names, fgColor, bgColor) ==
    IF names = <<>> THEN upd
    ELSE LET r == UpdateFgBgColor(upd.element, Head(names), fgColor, bgColor)
         IN  [element |-> r.element, warned |-> upd.warned + r.warned]

\* for name in style.names: update_fg_bg_color(element, name, fg, bg)
RECURSIVE ApplyNames(_, _, _, _)
ApplyNames(upd, names, fgColor, bgColor) ==
    IF names = <<>> THEN upd
    ELSE LET r == UpdateFgBgColor(upd.element, Head(names), fgColor, bgColor)
         IN  ApplyNames([element |-> r.element,
                         warned |-> upd.warned + r.warned],
                        Tail(names), fgColor, bgColor)

\* Mutant: the loop over the styles ends at the first style that holds the
\* element's name.
RECURSIVE ApplyStylesFirstMatch(_, _)
ApplyStylesFirstMatch(upd, styleList) ==
    IF styleList = <<>> THEN upd
    ELSE LET style == Head(styleList)
             next == ApplyNames(upd, style.names, style.fgColor, style.bgColor)
         IN  IF Get(upd.element, "name") \in ToSet(style.names) THEN next
             ELSE ApplyStylesFirstMatch(next, Tail(styleList))

\* for style in styles: for name in style.names: ...
RECURSIVE ApplyStyles(_, _)
ApplyStyles(upd, styleList) ==
    IF styleList = <<>> THEN upd
    ELSE LET style == Head(styleList)
         IN  ApplyStyles(ApplyNames(upd, style.names, style.fgColor,
                                    style.bgColor),
                         Tail(styleList))

\* One leaf after the loops over all styles and names.
UpdatedLeaf(element, styleList) ==
    ApplyStyles([element |-> element, warned |-> 0], styleList)

\* for element in elements: ... ; the updated elements and the warnings.
UpdatedLeaves(elements, styleList) ==
    [i \in 1..Len(elements) |-> UpdatedLeaf(elements[i], styleList).element]

RECURSIVE WarningsOf(_, _)
WarningsOf(elements, styleList) ==
    IF elements = <<>> THEN 0
    ELSE UpdatedLeaf(Head(elements), styleList).warned
         + WarningsOf(Tail(elements), styleList)

(***************************************************************************)
(* The command dispatcher (main) and the steps of a run.                   *)
(*                                                                         *)
(* A run is cut at its blocking operations: each action below is one       *)
(* stretch of main from one file or process operation to the next.         *)
(***************************************************************************)
CreateOrUpdateTemplate == "create-or-update-template"
BuildThemeVariants == "build-theme-variants"
FormatConfigFile == "format-config-file"
GetDistinctNames == "get-distinct-style-names"
GetDistinctMissingNames == "get-distinct-missing-style-names"
Commands == {CreateOrUpdateTemplate, BuildThemeVariants, FormatConfigFile,
             GetDistinctNames, GetDistinctMissingNames}

NoTree == [LexerStyles |-> None, GlobalStyles |-> None]
NoOutput == [title |-> "", names |-> <<>>, count |-> 0]

Op(op, file) == [op |-> op, file |-> file]

\* The run ends with the uncaught exception e.
Fail(e) == pc' = "failed" /\ err' = e

\* load_styles_from_config(args.config): the first step of three commands.
LoadConfig ==
    /\ pc = "start"
    /\ cmd \in {CreateOrUpdateTemplate, FormatConfigFile, GetDistinctMissingNames}
    /\ io' = Append(io, Op("read", "config"))
    /\ LET loaded == LoadStylesFromConfig(configFile)
       IN  IF loaded.exc # NoExc
           THEN Fail(loaded.exc) /\ UNCHANGED styles
           ELSE pc' = "loaded" /\ styles' = loaded.val /\ UNCHANGED err
    /\ UNCHANGED <<cmd, configFile, sourceFile, targetFile, root, warnings,
                   stdout, arg, ret>>

\* The position at which each command parses the source file.
ParsePosition ==
    CASE cmd = CreateOrUpdateTemplate -> "loaded"
      [] cmd = GetDistinctMissingNames -> "loaded"
      [] cmd = GetDistinctNames -> "start"
      [] OTHER -> "never"

\* parse_xml_file(args.source): the tree of the document in the file.
ParseXml ==
    /\ pc = ParsePosition
    /\ io' = Append(io, Op("read", "source"))
    /\ root' = sourceFile
    /\ pc' = "parsed"
    /\ UNCHANGED <<cmd, err, configFile, sourceFile, targetFile, styles,
                   warnings, stdout, arg, ret>>

\* create_or_update_template, "update lexer styles": every WordsStyle of
\* every LexerType is updated in place in the tree.
UpdateLexerStyles ==
    /\ pc = "parsed"
    /\ cmd = CreateOrUpdateTemplate
    /\ LET lexer_styles == GetLexerStyles(root)
       IN  IF lexer_styles.exc # NoExc
           THEN Fail(lexer_styles.exc) /\ UNCHANGED <<root, warnings>>
           ELSE LET lexer_types == lexer_styles.val
                IN  /\ root' = [root EXCEPT !.LexerStyles =
                          Some([i \in 1..Len(lexer_types) |->
                                  UpdatedLeaves(lexer_types[i], styles)])]
                    /\ warnings' = warnings
                          + WarningsOf(WordsStylesOf(lexer_types), styles)
                    /\ pc' = "lexer"
                    /\ UNCHANGED err
    /\ UNCHANGED <<cmd, configFile, sourceFile, targetFile, styles, io,
                   stdout, arg, ret>>

\* Mutant: the tree is written before GlobalStyles is looked up.
UpdateGlobalStylesAfterWrite ==
    /\ pc = "lexer"
    /\ targetFile' = Some(root)
    /\ io' = Append(io, Op("write", "target"))
    /\ LET global_styles == GetGlobalStyles(root)
       IN  IF global_styles.exc # NoExc
           THEN Fail(global_styles.exc) /\ UNCHANGED <<root, warnings>>
           ELSE LET widget_styles == global_styles.val
                IN  /\ root' = [root EXCEPT !.GlobalStyles =
                          Some(UpdatedLeaves(widget_styles, styles))]
                    /\ warnings' = warnings + WarningsOf(widget_styles, styles)
                    /\ pc' = "global"
                    /\ UNCHANGED err
    /\ UNCHANGED <<cmd, configFile, sourceFile, styles, stdout, arg, ret>>

\* create_or_update_template, "update global styles".
UpdateGlobalStyles ==
    /\ pc = "lexer"
    /\ LET global_styles == GetGlobalStyles(root)
       IN  IF global_styles.exc # NoExc
           THEN Fail(global_styles.exc) /\ UNCHANGED <<root, warnings>>
           ELSE LET widget_styles == global_styles.val
                IN  /\ root' = [root EXCEPT !.GlobalStyles =
                          Some(UpdatedLeaves(widget_styles, styles))]
                    /\ warnings' = warnings + WarningsOf(widget_styles, styles)
                    /\ pc' = "global"
                    /\ UNCHANGED err
    /\ UNCHANGED <<cmd, configFile, sourceFile, targetFile, styles, io,
                   stdout, arg, ret>>

\* Mutant: the written file is parsed again.
WriteTargetThenReread ==
    /\ pc = "global"
    /\ io' = io \o <<Op("write", "target"), Op("read", "target")>>
    /\ targetFile' = Some(root)
    /\ pc' = "done"
    /\ UNCHANGED <<cmd, err, configFile, sourceFile, styles, root, warnings,
                   stdout, arg, ret>>

\* tree.write(target_file_path, ...): the target holds the updated tree.
WriteTarget ==
    /\ pc = "global"
    /\ io' = Append(io, Op("write", "target"))
    /\ targetFile' = Some(root)
    /\ pc' = "done"
    /\ UNCHANGED <<cmd, err, configFile, sourceFile, styles, root, warnings,
                   stdout, arg, ret>>

\* format_config_file(args.config, styles): open for writing and dump.
SaveConfig ==
    /\ pc = "loaded"
    /\ cmd = FormatConfigFile
    /\ io' = Append(io, Op("write", "config"))
    /\ configFile' = DumpStyles(styles)
    /\ pc' = "done"
    /\ UNCHANGED <<cmd, err, sourceFile, targetFile, styles, root, warnings,
                   stdout, arg, ret>>

\* The result of a report is printed, or its exception ends the run.
Report(title, result) ==
    IF result.exc # NoExc
    THEN Fail(result.exc) /\ UNCHANGED stdout
    ELSE /\ stdout' = [title |-> title, names |-> result.val,
                       count |-> Len(result.val)]
         /\ pc' = "done"
         /\ UNCHANGED err

\* get-distinct-style-names after the parse.
PrintDistinct ==
    /\ pc = "parsed"
    /\ cmd = GetDistinctNames
    /\ LET lexer_styles == GetLexerStyles(root)
       IN  IF lexer_styles.exc # NoExc
           THEN Fail(lexer_styles.exc) /\ UNCHANGED stdout
           ELSE Report("Distinct style names:",
                       GetDistinctStyleNames(lexer_styles.val))
    /\ UNCHANGED <<cmd, configFile, sourceFile, targetFile, styles, root,
                   warnings, io, arg, ret>>

\* get-distinct-missing-style-names after the parse.
PrintMissing ==
    /\ pc = "parsed"
    /\ cmd = GetDistinctMissingNames
    /\ LET lexer_styles == GetLexerStyles(root)
       IN  IF lexer_styles.exc # NoExc
           THEN Fail(lexer_styles.exc) /\ UNCHANGED stdout
           ELSE Report("Missing style names:",
                       GetDistinctMissingStyleNames(lexer_styles.val, styles))
    /\ UNCHANGED <<cmd, configFile, sourceFile, targetFile, styles, root,
                   warnings, io, arg, ret>>

\* build-theme-variants: subprocess.run([...], check=True).  The tool is
\* external: it may exit with status 0 or not.
RunBuildTool ==
    /\ pc = "start"
    /\ cmd = BuildThemeVariants
    /\ io' = Append(io, Op("run", "npx"))
    /\ \E status \in {0, 1} :
          IF status = 0 THEN pc' = "done" /\ UNCHANGED err
          ELSE Fail("CalledProcessError")
    /\ UNCHANGED <<cmd, configFile, sourceFile, targetFile, styles, root,
                   warnings, stdout, arg, ret>>

(***************************************************************************)
(* Functions applied on their own.                                         *)
(***************************************************************************)
\* Style(**arg)
Construct ==
    /\ pc = "start"
    /\ ret' = Style(arg.names, arg.fgColor, arg.bgColor)
    /\ pc' = "done"
    /\ UNCHANGED <<cmd, err, configFile, sourceFile, targetFile, styles, root,
                   warnings, io, stdout, arg>>

\* Style(**asdict(style)) for the style just constructed.
Reconstruct ==
    /\ pc = "done"
    /\ ret.exc = NoExc
    /\ arg' = ret.val
    /\ ret' = Style(ret.val.names, ret.val.fgColor, ret.val.bgColor)
    /\ pc' = "again"
    /\ UNCHANGED <<cmd, err, configFile, sourceFile, targetFile, styles, root,
                   warnings, io, stdout>>

\* update_fg_bg_color(**arg)
ApplyUpdater ==
    /\ pc = "start"
    /\ ret' = UpdateFgBgColor(arg.element, arg.style_name, arg.new_fg_color,
                              arg.new_bg_color)
    /\ warnings' = warnings + ret'.warned
    /\ pc' = "done"
    /\ UNCHANGED <<cmd, err, configFile, sourceFile, targetFile, styles, root,
                   io, stdout, arg>>

\* format_config_file(args.config, arg) for a given list of styles; the
\* format-config-file command then runs on the file it wrote.
FormatGiven ==
    /\ pc = "given"
    /\ configFile' = DumpStyles(arg)
    /\ pc' = "start"
    /\ UNCHANGED <<cmd, err, sourceFile, targetFile, styles, root, warnings,
                   io, stdout, arg, ret>>

(***************************************************************************)
(* Inputs.                                                                 *)
(***************************************************************************)
MaxLexerTypes == 2   \* LexerType elements of an audited source
MaxWordsStyles == 2  \* WordsStyle elements per LexerType of an audited source

SeqsUpTo(S, n) == UNION {[1..k -> S] : k \in 0..n}

\* The style names of the sources and configs the commands run on.
FileNames == {Some(<<"a">>), Some(<<"~">>)}

\* The names of one rule as written in a config file: none, one, two out
\* of order.
RuleNameLists ==
    {<<>>, <<Some(<<"a">>)>>, <<Some(<<"~">>), Some(<<"a">>)>>}

\* Colors written in config files: palette-variable references.
ConfigColors == {None, Some(<<"$">>), Some(<<"$", "a">>)}

\* A config file as a person writes it: per rule the keys names, fgColor,
\* bgColor in that order, a key left out when it has nothing to say, and a
\* string quoted where YAML needs it.
AuthoredRule(names, fgColor, bgColor) ==
    (IF names = <<>> THEN <<>> ELSE <<SeqEntry("names", names)>>)
    \o (IF fgColor = None THEN <<>> ELSE <<ScalarEntry("fgColor", fgColor)>>)
    \o (IF bgColor = None THEN <<>> ELSE <<ScalarEntry("bgColor", bgColor)>>)

AuthoredRules(colors) ==
    {AuthoredRule(n, f, b) : n \in RuleNameLists, f \in colors, b \in colors}

\* A style element of a source document.
SourceLeaf(name, fgColor, bgColor) ==
    [k \in AttrKeys |-> CASE k = "name" -> name
                          [] k = "fgColor" -> fgColor
                          [] k = "bgColor" -> bgColor
                          [] OTHER -> None]

\* Leaves of template sources: with or without a name, with a literal
\* foreground color and no background color or the other way round.
SourceLeaves ==
    {SourceLeaf(n, Some(<<"a">>), None) : n \in {None} \cup FileNames}
    \cup {SourceLeaf(n, None, Some(<<"a">>)) : n \in {None} \cup FileNames}

\* Leaves of audited sources: with or without a name.
AuditLeaves == {SourceLeaf(n, Some(<<"a">>), None) : n \in {None} \cup FileNames}

\* Template sources: LexerStyles missing or with one LexerType of one
\* WordsStyle, GlobalStyles missing or with one WidgetStyle.
TemplateSources ==
    [LexerStyles : {None} \cup {Some(<<<<l>>>>) : l \in SourceLeaves},
     GlobalStyles : {None} \cup {Some(<<l>>) : l \in SourceLeaves}]

\* Audited sources: LexerStyles missing or with at most MaxLexerTypes
\* LexerType elements of at most MaxWordsStyles WordsStyle elements each,
\* GlobalStyles missing or with at most one WidgetStyle.
AuditedSources ==
    [LexerStyles : {None} \cup
         {Some(t) : t \in SeqsUpTo(SeqsUpTo(AuditLeaves, MaxWordsStyles),
                                   MaxLexerTypes)},
     GlobalStyles : {None} \cup {Some(w) : w \in SeqsUpTo(AuditLeaves, 1)}]

\* A target file left by an earlier run.
StaleTarget ==
    [LexerStyles |-> Some(<<>>),
     GlobalStyles |-> Some(<<SourceLeaf(None, None, None)>>)]

\* The state in which main starts a command.
InitRun(commands, configs, sources, targets) ==
    /\ cmd \in commands
    /\ pc = "start"
    /\ err = NoExc
    /\ configFile \in configs
    /\ sourceFile \in sources
    /\ targetFile \in targets
    /\ styles = <<>>
    /\ root = NoTree
    /\ warnings = 0
    /\ io = <<>>
    /\ stdout = NoOutput
    /\ arg = <<>>
    /\ ret = <<>>

\* The state before a function is applied on its own to an argument.
InitCall(position, args) ==
    /\ cmd = FormatConfigFile
    /\ pc = position
    /\ err = NoExc
    /\ configFile = <<>>
    /\ sourceFile = NoTree
    /\ targetFile = None
    /\ styles = <<>>
    /\ root = NoTree
    /\ warnings = 0
    /\ io = <<>>
    /\ stdout = NoOutput
    /\ arg \in args
    /\ ret = <<>>

(***************************************************************************)
(* Specifications.                                                         *)
(***************************************************************************)
\* Every command of the dispatcher, on config files of at most one rule.
Init ==
    InitRun(Commands, SeqsUpTo(AuthoredRules(ConfigColors), 1),
            TemplateSources,
            {Some(StaleTarget)})

Next ==
    \/ LoadConfig
    \/ ParseXml
    \/ UpdateLexerStyles
    \/ UpdateGlobalStyles
    \/ WriteTarget
    \/ SaveConfig
    \/ PrintDistinct
    \/ PrintMissing
    \/ RunBuildTool

Spec == Init /\ [][Next]_vars

\* create-or-update-template.
InitBuild ==
    InitRun({CreateOrUpdateTemplate},
            SeqsUpTo(AuthoredRules(ConfigColors), MaxRules),
            TemplateSources,
            {Some(StaleTarget)})

NextBuild ==
    \/ LoadConfig
    \/ ParseXml
    \/ UpdateLexerStyles
    \/ UpdateGlobalStyles
    \/ WriteTarget

SpecBuild == InitBuild /\ [][NextBuild]_vars

\* get-distinct-missing-style-names.
InitAudit ==
    InitRun({GetDistinctMissingNames},
            SeqsUpTo(AuthoredRules({Some(<<"$">>)}), MaxRules),
            AuditedSources,
            {None})

NextAudit ==
    \/ LoadConfig
    \/ ParseXml
    \/ PrintMissing

SpecAudit == InitAudit /\ [][NextAudit]_vars

\* Style construction.
StyleArgs == [names : NameLists, fgColor : OptColors, bgColor : OptColors]

InitStyle == InitCall("start", StyleArgs)
NextStyle == Construct \/ Reconstruct
SpecStyle == InitStyle /\ [][NextStyle]_vars

\* update_fg_bg_color.
UpdaterArgs ==
    [element : Elements, style_name : StrNames,
     new_fg_color : OptColors, new_bg_color : OptColors]

InitUpdater == InitCall("start", UpdaterArgs)
NextUpdater == ApplyUpdater
SpecUpdater == InitUpdater /\ [][NextUpdater]_vars

\* format_config_file followed by the format-config-file command.  The
\* colors of saved styles: none, empty, palette-variable references.
SavedColors == ConfigColors \cup {Some(<<>>)}

ValidStyles ==
    {st.val : st \in {s \in {Style(a.names, a.fgColor, a.bgColor) :
                                 a \in [names : SeqsUpTo(FileNames, 2),
                                        fgColor : SavedColors,
                                        bgColor : SavedColors]} :
                        s.exc = NoExc}}

InitConfig == InitCall("given", SeqsUpTo(ValidStyles, MaxRules))
NextConfig == FormatGiven \/ LoadConfig \/ SaveConfig
SpecConfig == InitConfig /\ [][NextConfig]_vars

(***************************************************************************)
(* Properties of Style construction (SpecStyle).                           *)
(***************************************************************************)
ValidationErrors == {EmptyNamesError, NoColorError, FgPrefixError, BgPrefixError}

\* A color that is present (not None) and does not start with "$".
Unprefixed(color) == color # None /\ ~StartsWith(Val(color), "$")

\* The inputs the specification calls invalid.
InvalidRuleInput(a) ==
    \/ a.names = <<>>
    \/ a.fgColor = None /\ a.bgColor = None
    \/ Unprefixed(a.fgColor)
    \/ Unprefixed(a.bgColor)

StrictlyAscending(names) ==
    \A i \in 1..(Len(names) - 1) : StrLess(Val(names[i]), Val(names[i + 1]))

\* C1: constructing a Style fails with a validation error for every input
\* with empty names, or with both colors absent, or with a present color
\* (the empty string included) that does not start with "$".
C1_InvalidInputRejected ==
    (pc = "done" /\ InvalidRuleInput(arg)) => ret.exc \in ValidationErrors

\* C8: for every valid input (names not empty, a color present, every
\* present color starting with "$") construction succeeds and stores the
\* names without duplicates in strictly ascending order; constructing again
\* from a constructed style leaves its names unchanged.
C8_ValidInputNormalized ==
    /\ (pc = "done" /\ ~InvalidRuleInput(arg)) =>
          /\ ret.exc = NoExc
          /\ StrictlyAscending(ret.val.names)
          /\ ToSet(ret.val.names) = ToSet(arg.names)
          /\ ret.val.fgColor = arg.fgColor
          /\ ret.val.bgColor = arg.bgColor
    /\ pc = "again" => (ret.exc = NoExc /\ ret.val.names = arg.names)

\* A valid input whose names are out of order and repeat a name.
C8_Witness ==
    /\ pc = "done"
    /\ ~InvalidRuleInput(arg)
    /\ Len(arg.names) = 3
    /\ ~StrictlyAscending(arg.names)
    /\ ret.exc = NoExc
    /\ Len(ret.val.names) = 2

(***************************************************************************)
(* Properties of update_fg_bg_color (SpecUpdater).                         *)
(***************************************************************************)
Matches == Get(arg.element, "name") = arg.style_name

\* C2: on a matching name fgColor becomes new_fg_color only if that is not
\* None and bgColor becomes new_bg_color only if that is not None; a None
\* color leaves the attribute, present or missing, as it was, and no other
\* attribute changes.
C2_MatchSetsPresentColors ==
    (pc = "done" /\ Matches) =>
        /\ Get(ret.element, "fgColor") =
              (IF arg.new_fg_color # None THEN arg.new_fg_color
               ELSE Get(arg.element, "fgColor"))
        /\ Get(ret.element, "bgColor") =
              (IF arg.new_bg_color # None THEN arg.new_bg_color
               ELSE Get(arg.element, "bgColor"))
        /\ \A k \in AttrKeys \ {"fgColor", "bgColor"} :
              Get(ret.element, k) = Get(arg.element, k)

\* A matching element with both colors, updated with a foreground only.
C2_Witness ==
    /\ pc = "done"
    /\ Matches
    /\ arg.new_fg_color = Some(<<"$">>)
    /\ arg.new_bg_color = None
    /\ Get(arg.element, "fgColor") = Some(<<"a">>)
    /\ Get(arg.element, "bgColor") = Some(<<"a", "a">>)
    /\ Get(ret.element, "fgColor") = Some(<<"$">>)
    /\ Get(ret.element, "bgColor") = Some(<<"a", "a">>)

\* C3: on a name that differs (a missing name attribute included) every
\* attribute is left unchanged, nothing is raised, one warning is logged
\* and the element is returned.
C3_MismatchLeavesElement ==
    (pc = "done" /\ ~Matches) =>
        /\ ret.element = arg.element
        /\ ret.exc = NoExc
        /\ ret.warned = 1
        /\ warnings = 1

\* A named element updated under another name with both colors given.
C3_Witness ==
    /\ pc = "done"
    /\ Get(arg.element, "name") \notin {None, arg.style_name}
    /\ arg.new_fg_color # None
    /\ arg.new_bg_color # None
    /\ Get(arg.element, "fgColor") # arg.new_fg_color
    /\ ret.element = arg.element

(***************************************************************************)
(* Properties of the config round trip (SpecConfig).                       *)
(***************************************************************************)
\* C6: for every list of valid Style rules, saving it with
\* format_config_file and loading the written file yields the same list
\* (number, order, names, colors, an absent color staying absent), and the
\* format-config-file command leaves such a file as it is.
C6_ConfigRoundTrip ==
    /\ [](pc # "failed" /\ (pc \in {"loaded", "done"} => styles = arg))
    /\ [][pc = "loaded" => configFile' = configFile]_vars

\* Two rules were saved and loaded back: one with two names, one of them
\* the YAML null sign, and no background; one with an empty foreground.
C6_Witness ==
    /\ pc = "loaded"
    /\ Len(arg) = 2
    /\ arg[1].names = <<Some(<<"a">>), Some(<<"~">>)>>
    /\ arg[1].bgColor = None
    /\ arg[2].fgColor = Some(<<>>)
    /\ styles = arg

(***************************************************************************)
(* Properties of the style auditor (SpecAudit).                            *)
(***************************************************************************)
\* The run got as far as calling get_distinct_missing_style_names.
AuditCalled ==
    /\ pc \in {"done", "failed"}
    /\ Len(io) = 2
    /\ root.LexerStyles # None

\* The name attributes that WordsStyle elements under LexerType carry.
WordsStyleNames ==
    LET lexer_types == Val(root.LexerStyles)
    IN  UNION {{Get(lexer_types[i][j], "name") : j \in 1..Len(lexer_types[i])} :
                  i \in 1..Len(lexer_types)} \ {None}

\* The names some configured rule holds.
CoveredNames ==
    {n \in StrNames : \E i \in 1..Len(styles) : n \in ToSet(styles[i].names)}

\* C7: get_distinct_missing_style_names returns, ascending and without
\* duplicates, exactly the name attributes of the WordsStyle elements under
\* the LexerType children minus the names of all rules.
C7_MissingNamesExact ==
    AuditCalled =>
        /\ pc = "done"
        /\ ToSet(stdout.names) = WordsStyleNames \ CoveredNames
        /\ StrictlyAscending(stdout.names)
        /\ stdout.count = Len(stdout.names)

\* The same on sources whose WordsStyle elements all carry a name.
AllWordsStylesNamed ==
    \A i \in 1..Len(Val(root.LexerStyles)) :
        \A j \in 1..Len(Val(root.LexerStyles)[i]) :
            Get(Val(root.LexerStyles)[i][j], "name") # None

C7_NamedSourcesExact ==
    (AuditCalled /\ AllWordsStylesNamed) => C7_MissingNamesExact

(***************************************************************************)
(* Properties of the dispatcher (Spec).                                    *)
(***************************************************************************)
Count(op) == Cardinality({i \in 1..Len(io) : io[i].op = op})

\* The order and number of operations of a run, whichever the command.
Sequential ==
    /\ Count("run") <= 1
    /\ Count("write") <= 1
    /\ \A i, j \in 1..Len(io) :
          (io[i].op = "write" /\ io[j].op = "read") => j < i
    /\ cmd \in {GetDistinctNames, GetDistinctMissingNames} =>
          (Count("write") = 0 /\ Count("run") = 0)
    /\ Count("run") > 0 => cmd = BuildThemeVariants

\* C9 as stated: every command's run performs one or more file reads, at
\* most one process invocation and at most one write, the reads before the
\* write; the get-distinct commands write nothing and start nothing; only
\* build-theme-variants starts a process.
C9_EveryCommandReads ==
    /\ Sequential
    /\ pc = "done" => Count("read") >= 1

\* C9 amended: as stated, except that build-theme-variants reads no file;
\* each of the other four commands reads one or more.
C9_ReadsExceptBuildTool ==
    /\ Sequential
    /\ (pc = "done" /\ cmd # BuildThemeVariants) => Count("read") >= 1
    /\ cmd = BuildThemeVariants => Count("read") = 0

\* A finished template build: two reads, then the one write.
C9_Witness ==
    /\ pc = "done"
    /\ io = <<Op("read", "config"), Op("read", "source"),
              Op("write", "target")>>

(***************************************************************************)
(* Properties of the template builder (SpecBuild).                         *)
(***************************************************************************)
HasBothSections(doc) == doc.LexerStyles # None /\ doc.GlobalStyles # None

\* A finished build of a source with both sections.
Built == pc = "done" /\ targetFile # None /\ HasBothSections(Val(targetFile))

\* The target has the elements of the source, one for one.
SameShape(doc) ==
    /\ HasBothSections(doc)
    /\ Len(Val(doc.LexerStyles)) = Len(Val(sourceFile.LexerStyles))
    /\ \A i \in 1..Len(Val(doc.LexerStyles)) :
          Len(Val(doc.LexerStyles)[i]) = Len(Val(sourceFile.LexerStyles)[i])
    /\ Len(Val(doc.GlobalStyles)) = Len(Val(sourceFile.GlobalStyles))

\* Each WordsStyle of the source with the element at its place in the
\* document doc, and each WidgetStyle likewise.
WordsPairs(doc) ==
    UNION {{<<Val(sourceFile.LexerStyles)[i][j], Val(doc.LexerStyles)[i][j]>> :
               j \in 1..Len(Val(sourceFile.LexerStyles)[i])} :
           i \in 1..Len(Val(sourceFile.LexerStyles))}

WidgetPairs(doc) ==
    {<<Val(sourceFile.GlobalStyles)[k], Val(doc.GlobalStyles)[k]>> :
        k \in 1..Len(Val(sourceFile.GlobalStyles))}

LeafPairs(doc) == WordsPairs(doc) \cup WidgetPairs(doc)

\* The rules (by position in the config) whose names hold the name.
Covering(name) ==
    {i \in 1..Len(styles) : name \in ToSet(styles[i].names)}

\* The leaf t carries rule r's present colors and keeps leaf s's value for
\* each color r leaves absent.
CarriesRule(s, t, r) ==
    /\ Get(t, "fgColor") =
          (IF r.fgColor # None THEN r.fgColor ELSE Get(s, "fgColor"))
    /\ Get(t, "bgColor") =
          (IF r.bgColor # None THEN r.bgColor ELSE Get(s, "bgColor"))

SameColors(s, t) ==
    /\ Get(t, "fgColor") = Get(s, "fgColor")
    /\ Get(t, "bgColor") = Get(s, "bgColor")

\* With both sections in the source and a config that loads, the build
\* does not fail.
NoErrorOnLeaves ==
    (pc = "failed" /\ HasBothSections(sourceFile)) => err \in ValidationErrors

\* C4 as stated: in the written target every WordsStyle and WidgetStyle
\* whose name a rule covers carries that rule's present colors and keeps
\* its original value for each color that rule leaves absent; a leaf no rule
\* covers keeps both colors; no error is raised for unmatched leaves.
C4_EveryCoveringRuleCarried ==
    /\ NoErrorOnLeaves
    /\ Built =>
          /\ SameShape(Val(targetFile))
          /\ \A p \in LeafPairs(Val(targetFile)) :
                /\ \A i \in Covering(Get(p[1], "name")) :
                      CarriesRule(p[1], p[2], styles[i])
                /\ Covering(Get(p[1], "name")) = {} => SameColors(p[1], p[2])

\* C4 amended: the same for every leaf whose name exactly one rule covers.
C4_SingleCoveringRuleCarried ==
    /\ NoErrorOnLeaves
    /\ Built =>
          /\ SameShape(Val(targetFile))
          /\ \A p \in LeafPairs(Val(targetFile)) :
                LET covering == Covering(Get(p[1], "name"))
                IN  /\ Cardinality(covering) = 1 =>
                          \A i \in covering : CarriesRule(p[1], p[2], styles[i])
                    /\ covering = {} => SameColors(p[1], p[2])

\* A WordsStyle and a WidgetStyle of one name, covered by the second name
\* of the one rule that sets a foreground only; the WidgetStyle had a
\* background, the WordsStyle a foreground.
C4_Witness ==
    /\ Built
    /\ Len(styles) = 1
    /\ styles[1].names = <<Some(<<"a">>), Some(<<"~">>)>>
    /\ styles[1].fgColor = Some(<<"$", "a">>)
    /\ styles[1].bgColor = None
    /\ Val(sourceFile.LexerStyles) =
          <<<<SourceLeaf(Some(<<"~">>), Some(<<"a">>), None)>>>>
    /\ Val(sourceFile.GlobalStyles) =
          <<SourceLeaf(Some(<<"~">>), None, Some(<<"a">>))>>
    /\ Val(Val(targetFile).LexerStyles) =
          <<<<SourceLeaf(Some(<<"~">>), Some(<<"$", "a">>), None)>>>>
    /\ Val(Val(targetFile).GlobalStyles) =
          <<SourceLeaf(Some(<<"~">>), Some(<<"$", "a">>), Some(<<"a">>))>>

\* The source lacks a required section.
MissingSection == ~HasBothSections(sourceFile)

Wrote(file) == \E i \in 1..Len(io) : io[i] = Op("write", file)

\* C5: if the source lacks LexerStyles or GlobalStyles the build fails with
\* the structure error and the target is never opened or written, also
\* when the LexerStyles leaves were already updated in memory.
C5_FailureBeforeOutput ==
    /\ [][MissingSection =>
             /\ targetFile' = targetFile
             /\ ~Wrote("target")'
             /\ pc' # "done"]_vars
    /\ [][(pc = "parsed" /\ sourceFile.LexerStyles = None) =>
             (pc' = "failed" /\ err' = NoLexerStylesError)]_vars
    /\ [][(pc = "lexer" /\ sourceFile.GlobalStyles = None) =>
             (pc' = "failed" /\ err' = NoGlobalStylesError)]_vars

\* The run failed on the missing GlobalStyles after it had updated a
\* WordsStyle in memory; the stale target is still there.
C5_Witness ==
    /\ pc = "failed"
    /\ err = NoGlobalStylesError
    /\ root.LexerStyles # sourceFile.LexerStyles
    /\ targetFile = Some(StaleTarget)
    /\ ~Wrote("target")

\* The last rule that covers the name and sets the color, 0 if none does.
LastSetter(name, color) ==
    LET setters == {i \in Covering(name) : styles[i][color] # None}
    IN  IF setters = {} THEN 0
        ELSE CHOOSE i \in setters : \A j \in setters : j <= i

\* The color a leaf ends with: that of the last rule setting it, else its own.
FinalColor(s, color) ==
    LET i == LastSetter(Get(s, "name"), color)
    IN  IF i = 0 THEN Get(s, color) ELSE styles[i][color]

\* C10: with several rules covering a name each color is resolved on its
\* own by config order: a leaf's fgColor is that of the last rule holding
\* its name with a fgColor, else its original one, and so for bgColor; for
\* WordsStyle and WidgetStyle leaves alike.
C10_LastSettingRuleWins ==
    Built =>
        /\ SameShape(Val(targetFile))
        /\ \A p \in LeafPairs(Val(targetFile)) :
              /\ Get(p[2], "fgColor") = FinalColor(p[1], "fgColor")
              /\ Get(p[2], "bgColor") = FinalColor(p[1], "bgColor")

\* Two rules cover the name of a WordsStyle and of a WidgetStyle: the first
\* sets both colors, the second another foreground only.
C10_Witness ==
    /\ Built
    /\ Len(styles) = 2
    /\ styles[1].fgColor = Some(<<"$">>)
    /\ styles[1].bgColor = Some(<<"$">>)
    /\ styles[2].fgColor = Some(<<"$", "a">>)
    /\ styles[2].bgColor = None
    /\ \E p \in WordsPairs(Val(targetFile)), q \in WidgetPairs(Val(targetFile)) :
          /\ Covering(Get(p[1], "name")) = {1, 2}
          /\ Get(q[1], "name") = Get(p[1], "name")
          /\ Get(p[2], "fgColor") = Some(<<"$", "a">>)
          /\ Get(p[2], "bgColor") = Some(<<"$">>)
          /\ Get(q[2], "fgColor") = Some(<<"$", "a">>)
          /\ Get(q[2], "bgColor") = Some(<<"$">>)

====
